---- MODULE Spec2Model ----
(***************************************************************************)
(* A model of lexical_analysis.py: the Portugol tokenizer AnaliseLexica,   *)
(* its text normalization, the ordered alternation token_pattern, and the  *)
(* process-wide symbol_table.                                              *)
(*                                                                         *)
(* A text is a sequence of characters, each character a one-element        *)
(* string; a combining mark is written by its code point, as in "U+0301".  *)
(* Offsets (pos, col, start, end) count from 0 as in Python, so the         *)
(* character at offset p of a text s is s[p + 1].                          *)
(***************************************************************************)
EXTENDS Integers, Sequences, FiniteSets, TLC

\* ------------------------------------------------------------------ bounds

\* Longest enumerated input text.
MaxLen == 3
\* Calls of AnaliseLexica the process makes one after the other.
MaxScans == 2

\* -------------------------------------------------------------- characters

\* [a-zA-Z_] of the identifier rule.
Letters ==
    {"a","b","c","d","e","f","g","h","i","j","k","l","m","n","o","p","q","r",
     "s","t","u","v","w","x","y","z",
     "A","B","C","D","E","F","G","H","I","J","K","L","M","N","O","P","Q","R",
     "S","T","U","V","W","X","Y","Z","_"}

\* [0-9] of the identifier and inteiro rules.
Digits == {"0","1","2","3","4","5","6","7","8","9"}

\* [a-zA-Z0-9_] of the identifier rule.
LettersDigits == Letters \cup Digits

\* \s of the whitespace rule (the ASCII members of the class).
Spaces == {" ", "\t", "\n", "\r", "\f"}

\* Characters of Unicode category Mn that the model's texts can hold; U+034F
\* (combining grapheme joiner) is of that category with combining class 0.
CombiningMarks == {"U+0301", "U+0303", "U+0327", "U+034F"}

\* unicodedata.combining(c): the canonical combining class.  U+302E and
\* U+1715 are spacing marks (category Mc) of a class other than 0.
CombiningClass(c) ==
    CASE c \in {"U+0301", "U+0303"} -> 230
      [] c = "U+0327" -> 202
      [] c = "U+302E" -> 224
      [] c = "U+1715" -> 9
      [] OTHER -> 0

\* unicodedata.normalize('NFD', c) for one character.
NFD(c) ==
    CASE c = "é" -> <<"e", "U+0301">>
      [] c = "É" -> <<"E", "U+0301">>
      [] c = "ã" -> <<"a", "U+0303">>
      [] c = "Ã" -> <<"A", "U+0303">>
      [] c = "ç" -> <<"c", "U+0327">>
      [] c = "Ç" -> <<"C", "U+0327">>
      [] OTHER -> <<c>>

UpperCase ==
    <<"A","B","C","D","E","F","G","H","I","J","K","L","M","N","O","P","Q","R",
      "S","T","U","V","W","X","Y","Z","É","Ã","Ç">>
LowerCase ==
    <<"a","b","c","d","e","f","g","h","i","j","k","l","m","n","o","p","q","r",
      "s","t","u","v","w","x","y","z","é","ã","ç">>

\* str.lower() for one character.
lower(c) ==
    IF \E i \in 1..Len(UpperCase) : UpperCase[i] = c
    THEN LowerCase[CHOOSE i \in 1..Len(UpperCase) : UpperCase[i] = c]
    ELSE c

RECURSIVE Flatten(_)
Flatten(ss) == IF ss = <<>> THEN <<>> ELSE Head(ss) \o Flatten(Tail(ss))

\* The canonical ordering of NFD: neighbours of non-zero combining class
\* are exchanged until no higher class stands before a lower one.
RECURSIVE CanonicalOrder(_)
CanonicalOrder(s) ==
    LET Swaps == {i \in 1..(Len(s) - 1) :
                    /\ CombiningClass(s[i + 1]) > 0
                    /\ CombiningClass(s[i]) > CombiningClass(s[i + 1])}
    IN  IF Swaps = {} THEN s
        ELSE LET i == CHOOSE k \in Swaps : \A j \in Swaps : k <= j
             IN  CanonicalOrder([s EXCEPT ![i] = s[i + 1], ![i + 1] = s[i]])

\* unicodedata.normalize('NFD', s): every character decomposed, then the
\* canonical ordering.
Decompose(s) == CanonicalOrder(Flatten([i \in 1..Len(s) |-> NFD(s[i])]))

\* normalize_accents: decompose, then drop the characters of category Mn.
normalize_accents(s) ==
    SelectSeq(Decompose(s), LAMBDA c : c \notin CombiningMarks)

\* normalize_case: lowercase every character.
RECURSIVE normalize_case(_)
normalize_case(s) ==
    IF s = <<>> THEN <<>> ELSE <<lower(Head(s))>> \o normalize_case(Tail(s))

\* The preprocessing at the head of AnaliseLexica.
normalize(s) == normalize_case(normalize_accents(s))

\* ---------------------------------------------------------- reserved words

\* The list as the source file holds it; its seventh entry is the five
\* characters f a U+00C3 U+00A7 a.
reserved_words ==
    { <<"e">>, <<"v","e","t","o","r">>, <<"i","n","i","c","i","o">>,
      <<"c","a","s","o">>, <<"c","o","n","s","t">>, <<"d","i","v">>,
      <<"f","a","Ã","§","a">>, <<"s","e","n","a","o">>, <<"f","i","m">>,
      <<"p","a","r","a">>, <<"f","u","n","c","a","o">>, <<"s","e">>,
      <<"m","o","d">>, <<"n","a","o">>, <<"d","e">>, <<"o","u">>,
      <<"p","r","o","c","e","d","i","m","e","n","t","o">>,
      <<"a","l","g","o","r","i","t","m","o">>,
      <<"r","e","g","i","s","t","r","o">>, <<"r","e","p","i","t","a">>,
      <<"e","n","t","a","o">>, <<"t","i","p","o">>, <<"a","t","e">>,
      <<"v","a","r">>, <<"e","n","q","u","a","n","t","o">> }

\* ------------------------------------------------------------ token_pattern

\* token_pattern without its last alternative, the catch-all.
token_pattern_no_catch_all ==
    << "identifier", "newline", "comment", "string", "whitespace", "inteiro",
       "atribuicao", "pontoponto", "ponto", "doispontos", "pontovirgula",
       "virgula", "colchete_esq", "colchete_dir", "parentese_esq",
       "parentese_dir", "igual", "menor_igual", "maior_igual", "diferente",
       "maior_que", "menor_que", "comentario", "divisao", "menos", "mul",
       "soma" >>

\* token_pattern without the comment rule of its third line: a '//' falls to
\* the comentario rule further down.
token_pattern_no_comment ==
    << "identifier", "newline", "string", "whitespace", "inteiro",
       "atribuicao", "pontoponto", "ponto", "doispontos", "pontovirgula",
       "virgula", "colchete_esq", "colchete_dir", "parentese_esq",
       "parentese_dir", "igual", "menor_igual", "maior_igual", "diferente",
       "maior_que", "menor_que", "comentario", "divisao", "menos", "mul",
       "soma", "desconhecido" >>

\* token_pattern with the one-character operators ahead of the two-character
\* operators they begin.
token_pattern_singles_first ==
    << "identifier", "newline", "comment", "string", "whitespace", "inteiro",
       "ponto", "maior_que", "menor_que",
       "atribuicao", "pontoponto", "doispontos", "pontovirgula",
       "virgula", "colchete_esq", "colchete_dir", "parentese_esq",
       "parentese_dir", "igual", "menor_igual", "maior_igual", "diferente",
       "comentario", "divisao", "menos", "mul", "soma", "desconhecido" >>

\* The named groups of token_pattern in the order of the alternation.
token_pattern ==
    << "identifier", "newline", "comment", "string", "whitespace", "inteiro",
       "atribuicao", "pontoponto", "ponto", "doispontos", "pontovirgula",
       "virgula", "colchete_esq", "colchete_dir", "parentese_esq",
       "parentese_dir", "igual", "menor_igual", "maior_igual", "diferente",
       "maior_que", "menor_que", "comentario", "divisao", "menos", "mul",
       "soma", "desconhecido" >>

\* The fixed text of the rules that match a literal.
Literal(name) ==
    CASE name = "newline"       -> <<"\n">>
      [] name = "atribuicao"    -> <<"<", "-">>
      [] name = "pontoponto"    -> <<".", ".">>
      [] name = "ponto"         -> <<".">>
      [] name = "doispontos"    -> <<":">>
      [] name = "pontovirgula"  -> <<";">>
      [] name = "virgula"       -> <<",">>
      [] name = "colchete_esq"  -> <<"[">>
      [] name = "colchete_dir"  -> <<"]">>
      [] name = "parentese_esq" -> <<"(">>
      [] name = "parentese_dir" -> <<")">>
      [] name = "igual"         -> <<"=">>
      [] name = "menor_igual"   -> <<"<", "=">>
      [] name = "maior_igual"   -> <<">", "=">>
      [] name = "diferente"     -> <<"<", ">">>
      [] name = "maior_que"     -> <<">">>
      [] name = "menor_que"     -> <<"<">>
      [] name = "comentario"    -> <<"/", "/">>
      [] name = "divisao"       -> <<"/">>
      [] name = "menos"         -> <<"-">>
      [] name = "mul"           -> <<"*">>
      [] name = "soma"          -> <<"+">>

\* The end offset a rule reports when it does not match.
NoEnd == 0 - 1

\* The offset at which the longest run of characters of S starting at p ends.
RunEnd(s, p, S) ==
    CHOOSE q \in p..Len(s) :
        /\ \A i \in (p + 1)..q : s[i] \in S
        /\ q = Len(s) \/ s[q + 1] \notin S

\* The first offset at or after p that holds a character of S, else Len(s).
UntilAny(s, p, S) ==
    CHOOSE q \in p..Len(s) :
        /\ \A i \in (p + 1)..q : s[i] \notin S
        /\ q = Len(s) \/ s[q + 1] \in S

\* Whether the literal w stands at offset p of s.
StartsWith(s, p, w) ==
    /\ p + Len(w) <= Len(s)
    /\ \A i \in 1..Len(w) : s[p + i] = w[i]

\* "(.*)": the last closing quote of the line.
StringEndGreedy(s, p) ==
    IF ~StartsWith(s, p, <<"\"">>) THEN NoEnd
    ELSE LET e == UntilAny(s, p + 1, {"\n"})
             closing == {j \in (p + 1)..(e - 1) : s[j + 1] = "\""}
         IN  IF closing = {} THEN NoEnd
             ELSE 1 + CHOOSE j \in closing : \A k \in closing : k <= j

\* "(.*?)": the nearest closing quote, with no newline before it.
StringEnd(s, p) ==
    IF ~StartsWith(s, p, <<"\"">>) THEN NoEnd
    ELSE LET q == UntilAny(s, p + 1, {"\"", "\n"})
         IN  IF q < Len(s) /\ s[q + 1] = "\"" THEN q + 1 ELSE NoEnd

\* The end offset of rule `name` matched at offset p of s, or NoEnd.
RuleEnd(name, s, p) ==
    CASE name = "identifier" ->
            IF p < Len(s) /\ s[p + 1] \in Letters
            THEN RunEnd(s, p + 1, LettersDigits) ELSE NoEnd
      [] name = "comment" ->
            IF StartsWith(s, p, <<"/", "/">>)
            THEN UntilAny(s, p + 2, {"\n"}) ELSE NoEnd
      [] name = "string" -> StringEnd(s, p)
      [] name = "whitespace" ->
            IF p < Len(s) /\ s[p + 1] \in Spaces
            THEN RunEnd(s, p + 1, Spaces) ELSE NoEnd
      [] name = "inteiro" ->
            IF p < Len(s) /\ s[p + 1] \in Digits
            THEN RunEnd(s, p + 1, Digits) ELSE NoEnd
      [] name = "desconhecido" ->
            IF p < Len(s) /\ s[p + 1] # "\n" THEN p + 1 ELSE NoEnd
      [] OTHER ->
            IF StartsWith(s, p, Literal(name)) THEN p + Len(Literal(name))
            ELSE NoEnd

\* The match object of a failed match (Python's None).
NoMatch == [lastgroup |-> "None", start |-> NoEnd, end |-> NoEnd]

\* The alternation: the rules are tried in the order of token_pattern from
\* the i-th on, and the first that matches wins.
RECURSIVE FirstMatch(_, _, _)
FirstMatch(s, p, i) ==
    IF i > Len(token_pattern) THEN NoMatch
    ELSE LET e == RuleEnd(token_pattern[i], s, p)
         IN  IF e # NoEnd
             THEN [lastgroup |-> token_pattern[i], start |-> p, end |-> e]
             ELSE FirstMatch(s, p, i + 1)

\* token_re.match(text, pos).
token_re_match(s, p) == FirstMatch(s, p, 1)

\* m.group of the group inside the string rule: the text between the quotes.
group_inner(s, m) ==
    IF m.lastgroup = "string" THEN SubSeq(s, m.start + 2, m.end - 1)
    ELSE SubSeq(s, m.start + 1, m.end)

\* m.group(token_name): the text the match covers.
group(s, m) == SubSeq(s, m.start + 1, m.end)

\* ------------------------------------------------------------------ inputs

\* The characters of the enumerated input texts.
RawAlphabet ==
    {"a", "e", "1", " ", "\n", "/", "\"", "<", "-", ".", "=", ">", "É"}


\* Every text of at most n characters of A.
Texts(A, n) == UNION {[1..k -> A] : k \in 0..n}

\* Longer texts: the reserved word the source writes with a cedilla, the
\* programs of the documentation, comments and strings around identifiers.
Examples ==
    { <<"f","a","ç","a">>,
      <<"A","ç","ã","o">>,
      <<"s","e"," ","n","2","=","0"," ","e","n","t","a","o">>,
      <<"s","a","i","d","a"," ","<","-"," ","n","1"," ","/"," ","n","2">>,
      <<"\"","/","/","a","\"">>,
      <<"\"","a","\"","e","/","/","a","\"","\n","e">>,
      <<"a","/","/","e","\n","a","\n","/","/","a">>,
      <<"a"," ","\n","e","\t","\n","\n","a">>,
      <<"@","e","U+0301","E"," ","a","*","(","a","+","a",")",";">>,
      <<"c","U+0301","U+0327">>,
      <<"U+302E","U+034F","U+1715">>,
      <<"\"","a","\"","e","\"","\n","a","\"">> }

\* The texts of the scans that follow another scan in the same process.
RescanInputs ==
    { <<>>, <<"a">>, <<"e">>, <<"a"," ","a">>, <<"/","/","a">>,
      <<"A","e","\n","a","1">> }

Inputs == Texts(RawAlphabet, MaxLen) \cup Examples

\* The texts of the two concurrent scans: they share the identifier a, at
\* different offsets, once or twice, beside a reserved word, an identifier of
\* their own and a comment.
ConcInputs ==
    { <<"a">>, <<" ","A">>, <<"a"," ","a">>, <<"e","\n","a">>,
      <<"a","a"," ","a">>, <<"/","/","a","\n","a","1">> }

\* ------------------------------------------------------------------- state

\* The threads of the process; main() runs on Main.
Threads == {"t1", "t2"}
Main == "t1"

VARIABLES
    symbol_table,   \* the module-level dict: identifier text -> list of Token
    calls,          \* how many times AnaliseLexica has been called
    pc,             \* per thread: where its generator stands
    text,           \* per thread: the generator's text (its argument at first)
    pos,            \* per thread: the cursor
    line,           \* per thread: the line counter
    current_token,  \* per thread: the Token built last
    out,            \* per thread: the tokens the consumer has received
    matches         \* per thread: every match object m of the scan, in order

vars == <<symbol_table, calls, pc, text, pos, line, current_token, out, matches>>

\* The Token dataclass.
Token(typ, val, lin, col) == [typ |-> typ, val |-> val, lin |-> lin, col |-> col]

\* current_token before any token has been built.
NoToken == Token("None", <<>>, 0, 0)

\* The empty dict.
EmptyTable == [k \in {} |-> <<>>]

Last(s) == s[Len(s)]

\* symbol_table.setdefault(k, []).
SetDefault(st, k) ==
    IF k \in DOMAIN st THEN st
    ELSE [x \in DOMAIN st \cup {k} |-> IF x = k THEN <<>> ELSE st[x]]

\* group.append(tok), group being the list stored under k.
AppendTo(st, k, tok) == [st EXCEPT ![k] = Append(@, tok)]

\* The symbol-table block written as an assignment, symbol_table[k] = [tok],
\* made for every non-reserved identifier.
RecordOverwrite(st, tok) ==
    IF tok.typ = "identifier" /\ tok.val \notin reserved_words
    THEN [x \in DOMAIN st \cup {tok.val} |->
             IF x = tok.val THEN <<tok>> ELSE st[x]]
    ELSE st

\* The symbol-table block of the loop body, run without interruption.
Record(st, tok) ==
    IF tok.typ = "identifier"
    THEN IF tok.val \notin reserved_words
         THEN IF tok.val \notin DOMAIN st
              THEN AppendTo(SetDefault(st, tok.val), tok.val, tok)
              ELSE st
         ELSE st
    ELSE st

\* The loop without its yield: it runs on to the end of the text.
RECURSIVE LoopMatchesAhead(_, _)
LoopMatchesAhead(s, p) ==
    LET m == token_re_match(s, p)
    IN  IF m.lastgroup = "None" THEN <<>>
        ELSE <<m>> \o LoopMatchesAhead(s, m.end)

\* The matches one pass of the while loop makes from offset p until it yields
\* or breaks: comment matches are skipped with `continue`.
RECURSIVE LoopMatches(_, _)
LoopMatches(s, p) ==
    LET m == token_re_match(s, p)
    IN  IF m.lastgroup = "None" THEN <<>>
        ELSE IF m.lastgroup = "comment" THEN <<m>> \o LoopMatches(s, m.end)
        ELSE <<m>>

\* The line counter counting every whitespace match as a line as well.
LineAfterAnySpace(m, l) ==
    IF m.lastgroup \in {"newline", "whitespace"} THEN l + 1 ELSE l

\* The line counter after match m (line_start, set beside it, is never read).
LineAfter(m, l) == IF m.lastgroup = "newline" THEN l + 1 ELSE l

\* The Token of match m with a column counted from the start of its line.
TokenOfLineRelative(s, m, l) ==
    LET starts == {0} \cup {j \in 1..m.end : s[j] = "\n"}
        line_start == CHOOSE j \in starts : \A k \in starts : k <= j
    IN  Token(m.lastgroup, group(s, m), LineAfter(m, l), m.end - line_start)

\* The Token the loop body builds for match m.
TokenOf(s, m, l) == Token(m.lastgroup, group(s, m), LineAfter(m, l), m.end)

\* How the generator ends once the loop has broken at offset p.
AfterLoop(s, p) == IF p # Len(s) THEN "raised" ELSE "done"

\* ----------------------------------------------------------------- actions

Init ==
    /\ symbol_table = EmptyTable
    /\ calls = 0
    /\ pc = [t \in Threads |-> "none"]
    /\ text = [t \in Threads |-> <<>>]
    /\ pos = [t \in Threads |-> 0]
    /\ line = [t \in Threads |-> 0]
    /\ current_token = [t \in Threads |-> NoToken]
    /\ out = [t \in Threads |-> <<>>]
    /\ matches = [t \in Threads |-> <<>>]

\* The texts a call can be given: any input first, a short text afterwards.
InputsFor(n) == IF n = 0 THEN Inputs ELSE RescanInputs

\* AnaliseLexica(raw) is called: a generator is created, none of its body runs.
Call(t) ==
    /\ pc[t] \in {"none", "done", "raised", "closed"}
    /\ calls < MaxScans
    /\ \E raw \in InputsFor(calls) : text' = [text EXCEPT ![t] = raw]
    /\ calls' = calls + 1
    /\ pc' = [pc EXCEPT ![t] = "created"]
    /\ pos' = [pos EXCEPT ![t] = 0]
    /\ line' = [line EXCEPT ![t] = 0]
    /\ current_token' = [current_token EXCEPT ![t] = NoToken]
    /\ out' = [out EXCEPT ![t] = <<>>]
    /\ matches' = [matches EXCEPT ![t] = <<>>]
    /\ UNCHANGED symbol_table

\* The text the generator scans: normalized by its first two lines when it
\* starts, as stored afterwards.
ScanText(t) == IF pc[t] = "created" THEN normalize(text[t]) ELSE text[t]

\* The consumer asks for the next token: the generator runs from where it
\* stands (its first line, or the yield) to the next yield or to its end.
\* (Each \E over a one-element set names a value computed once.)
Resume(t) ==
    /\ pc[t] \in {"created", "yield"}
    /\ \E s \in {ScanText(t)} : \E ms \in {LoopMatches(s, pos[t])} :
        LET p == IF ms = <<>> THEN pos[t] ELSE Last(ms).end
        IN  /\ text' = [text EXCEPT ![t] = s]
            /\ pos' = [pos EXCEPT ![t] = p]
            /\ matches' = [matches EXCEPT ![t] = @ \o ms]
            /\ IF ms # <<>> /\ Last(ms).lastgroup # "comment"
               THEN \E tok \in {TokenOf(s, Last(ms), line[t])} :
                       /\ line' = [line EXCEPT ![t] = tok.lin]
                       /\ current_token' = [current_token EXCEPT ![t] = tok]
                       /\ symbol_table' = Record(symbol_table, tok)
                       /\ out' = [out EXCEPT ![t] = Append(@, tok)]
                       /\ pc' = [pc EXCEPT ![t] = "yield"]
               ELSE /\ pc' = [pc EXCEPT ![t] = AfterLoop(s, p)]
                    /\ UNCHANGED <<line, current_token, symbol_table, out>>
    /\ UNCHANGED calls

\* The consumer stops asking and drops the generator.
Abandon(t) ==
    /\ pc[t] \in {"created", "yield"}
    /\ pc' = [pc EXCEPT ![t] = "closed"]
    /\ UNCHANGED <<symbol_table, calls, text, pos, line, current_token, out,
                   matches>>

Next ==
    \/ Call(Main)
    \/ Resume(Main)
    \/ Abandon(Main)

Spec == Init /\ [][Next]_vars

\* ------------------------------------------------- two scans on two threads

\* Both threads have called AnaliseLexica, each with its own text, and each
\* consumes its generator in a for loop; nothing synchronizes them.
InitConc ==
    /\ symbol_table = EmptyTable
    /\ calls = Cardinality(Threads)
    /\ pc = [t \in Threads |-> "created"]
    /\ text \in [Threads -> ConcInputs]
    /\ pos = [t \in Threads |-> 0]
    /\ line = [t \in Threads |-> 0]
    /\ current_token = [t \in Threads |-> NoToken]
    /\ out = [t \in Threads |-> <<>>]
    /\ matches = [t \in Threads |-> <<>>]

\* Lines 123-128: the generator starts.
Start(t) ==
    /\ pc[t] = "created"
    /\ text' = [text EXCEPT ![t] = normalize(text[t])]
    /\ pos' = [pos EXCEPT ![t] = 0]
    /\ line' = [line EXCEPT ![t] = 0]
    /\ pc' = [pc EXCEPT ![t] = "L131"]
    /\ UNCHANGED <<symbol_table, calls, current_token, out, matches>>

\* Lines 131-156: one match, the Token built from it, and the tests that read
\* nothing another thread writes (the group name, the reserved words).
Match(t) ==
    /\ pc[t] = "L131"
    /\ \E m \in {token_re_match(text[t], pos[t])} :
          IF m.lastgroup = "None"
          THEN /\ pc' = [pc EXCEPT ![t] = AfterLoop(text[t], pos[t])]
               /\ UNCHANGED <<pos, line, current_token, matches>>
          ELSE /\ pos' = [pos EXCEPT ![t] = m.end]
               /\ matches' = [matches EXCEPT ![t] = Append(@, m)]
               /\ IF m.lastgroup = "comment"
                  THEN UNCHANGED <<pc, line, current_token>>
                  ELSE \E tok \in {TokenOf(text[t], m, line[t])} :
                          /\ line' = [line EXCEPT ![t] = tok.lin]
                          /\ current_token' = [current_token EXCEPT ![t] = tok]
                          /\ pc' = [pc EXCEPT ![t] =
                                IF tok.typ = "identifier"
                                   /\ tok.val \notin reserved_words
                                THEN "L157" ELSE "L161"]
    /\ UNCHANGED <<symbol_table, calls, text, out>>

\* Line 157 without its test: the thread goes on to insert.
CheckMemberAlways(t) ==
    /\ pc[t] = "L157"
    /\ pc' = [pc EXCEPT ![t] = "L158"]
    /\ UNCHANGED <<symbol_table, calls, text, pos, line, current_token, out,
                   matches>>

\* Line 157: the membership test reads the shared dict.
CheckMember(t) ==
    /\ pc[t] = "L157"
    /\ pc' = [pc EXCEPT ![t] =
          IF current_token[t].val \notin DOMAIN symbol_table
          THEN "L158" ELSE "L161"]
    /\ UNCHANGED <<symbol_table, calls, text, pos, line, current_token, out,
                   matches>>

\* Line 158: setdefault.
Insert(t) ==
    /\ pc[t] = "L158"
    /\ symbol_table' = SetDefault(symbol_table, current_token[t].val)
    /\ pc' = [pc EXCEPT ![t] = "L159"]
    /\ UNCHANGED <<calls, text, pos, line, current_token, out, matches>>

\* Line 159: append to the list stored under the key.
AppendToken(t) ==
    /\ pc[t] = "L159"
    /\ symbol_table' =
          AppendTo(symbol_table, current_token[t].val, current_token[t])
    /\ pc' = [pc EXCEPT ![t] = "L161"]
    /\ UNCHANGED <<calls, text, pos, line, current_token, out, matches>>

\* Line 161: the token goes to the thread's for loop, which asks for the next.
Deliver(t) ==
    /\ pc[t] = "L161"
    /\ out' = [out EXCEPT ![t] = Append(@, current_token[t])]
    /\ pc' = [pc EXCEPT ![t] = "L131"]
    /\ UNCHANGED <<symbol_table, calls, text, pos, line, current_token,
                   matches>>

NextConc ==
    \E t \in Threads :
        \/ Start(t)
        \/ Match(t)
        \/ CheckMember(t)
        \/ Insert(t)
        \/ AppendToken(t)
        \/ Deliver(t)

SpecConc == InitConc /\ [][NextConc]_vars

\* ------------------------------------------------------- claim vocabulary

\* The reserved words as the documentation enumerates them: lowercase and
\* unaccented, "faca" included.
ReservedWordSet ==
    (reserved_words \ {<<"f","a","Ã","§","a">>}) \cup {<<"f","a","c","a">>}

\* The identifier tokens among toks, and those of them with text v.
Identifiers(toks) == SelectSeq(toks, LAMBDA k : k.typ = "identifier")
Occurrences(toks, v) ==
    SelectSeq(toks, LAMBDA k : k.typ = "identifier" /\ k.val = v)

\* a is the tail of b.
IsSuffix(a, b) ==
    /\ Len(a) <= Len(b)
    /\ \A i \in 1..Len(a) : a[i] = b[Len(b) - Len(a) + i]

\* a is the head of b.
IsPrefix(a, b) ==
    /\ Len(a) <= Len(b)
    /\ \A i \in 1..Len(a) : a[i] = b[i]

\* The newline characters among the first n characters of s.
Newlines(s, n) == Cardinality({i \in 1..n : s[i] = "\n"})

\* The matches of a log that are not comments.
NonComments(ms) == SelectSeq(ms, LAMBDA m : m.lastgroup # "comment")

\* The texts the matches of a log cover, one after the other.
Covered(s, ms) ==
    Flatten([i \in 1..Len(ms) |-> SubSeq(s, ms[i].start + 1, ms[i].end)])

\* The values of a token sequence, one after the other.
Values(toks) == Flatten([i \in 1..Len(toks) |-> toks[i].val])

\* --------------------------------------------------------------- claim C1
\* C1 (keyword exclusivity): every identifier token yielded is a key of the
\* symbol table exactly when its text is not one of the documented reserved
\* words, and no documented reserved word is ever a key.
C1_KeywordExclusivity ==
    /\ \A i \in 1..Len(out[Main]) :
          out[Main][i].typ = "identifier" =>
              (out[Main][i].val \in DOMAIN symbol_table
                  <=> out[Main][i].val \notin ReservedWordSet)
    /\ \A k \in DOMAIN symbol_table : k \notin ReservedWordSet

\* --------------------------------------------------------------- claim C2
\* C2 (every occurrence recorded): once a scan has been consumed to its end,
\* the list stored under each non-reserved identifier text ends with one Token
\* per identifier token of that text the scan yielded, in scan order.
C2_EveryOccurrenceRecorded ==
    pc[Main] = "done" =>
        \A i \in 1..Len(out[Main]) :
            LET k == out[Main][i]
            IN  (k.typ = "identifier" /\ k.val \notin ReservedWordSet) =>
                    /\ k.val \in DOMAIN symbol_table
                    /\ IsSuffix(Occurrences(out[Main], k.val),
                                symbol_table[k.val])

\* --------------------------------------------------------------- claim C3
\* C3 (line field): the lin of every emitted token is the number of newline
\* characters in the normalized text up to the end of the token's match.
C3_LineCountsNewlines ==
    pc[Main] \in {"yield", "done"} =>
        \A i \in 1..Len(out[Main]) :
            out[Main][i].lin = Newlines(text[Main], out[Main][i].col)

\* --------------------------------------------------------------- claim C4
\* C4 (no TokenizerException, forward progress): the generator never raises;
\* at every offset before the end of the normalized text some rule matches a
\* non-empty prefix, and none matches at its end (stated of each text when
\* it is handed over); every match of the scan ends after it starts, so the
\* loop has run at most pos times and pos never passes the end; and the
\* generator finishes only with pos at the end of the text.
C4_AlwaysMatchesNeverRaises ==
    /\ pc[Main] # "raised"
    /\ pc[Main] = "created" =>
          \E s \in {normalize(text[Main])} :
              /\ \A p \in 0..(Len(s) - 1) :
                    \E m \in {token_re_match(s, p)} :
                        m.lastgroup # "None" /\ m.end > p /\ m.end <= Len(s)
              /\ token_re_match(s, Len(s)) = NoMatch
    /\ \A i \in 1..Len(matches[Main]) :
          matches[Main][i].end > matches[Main][i].start
    /\ Len(matches[Main]) <= pos[Main]
    /\ matches[Main] # <<>> => pos[Main] <= Len(text[Main])
    /\ pc[Main] = "done" => pos[Main] = Len(text[Main])

\* A scan that ended after the catch-all rule had to take a character.
C4_Witness ==
    /\ pc[Main] = "done"
    /\ Len(text[Main]) >= 2
    /\ \E i \in 1..Len(out[Main]) : out[Main][i].typ = "desconhecido"

\* --------------------------------------------------------------- claim C5
\* C5 (total coverage): the matches of a scan lie end to end from offset 0 to
\* the cursor and their texts concatenate to the text scanned so far; the
\* values of the emitted tokens are, in order, the texts of the matches that
\* are not comments; a finished scan has covered the whole normalized text.
C5_TotalCoverage ==
    LET ms == matches[Main]
        s  == text[Main]
    IN  ms # <<>> =>
          /\ ms[1].start = 0
          /\ \A i \in 1..(Len(ms) - 1) : ms[i + 1].start = ms[i].end
          /\ Last(ms).end = pos[Main]
          /\ Covered(s, ms) = SubSeq(s, 1, pos[Main])
          /\ Len(out[Main]) = Len(NonComments(ms))
          /\ Values(out[Main]) = Covered(s, NonComments(ms))
          /\ pc[Main] = "done" => Covered(s, ms) = s

\* A finished scan that emitted a string token and skipped a comment.
C5_Witness ==
    /\ pc[Main] = "done"
    /\ \E i \in 1..Len(out[Main]) : out[Main][i].typ = "string"
    /\ \E i \in 1..Len(matches[Main]) : matches[Main][i].lastgroup = "comment"

\* --------------------------------------------------------------- claim C6
\* The two-character operators and their token names.
MultiCharOps ==
    { [op |-> <<"<", "-">>, name |-> "atribuicao"],
      [op |-> <<".", ".">>, name |-> "pontoponto"],
      [op |-> <<"<", "=">>, name |-> "menor_igual"],
      [op |-> <<">", "=">>, name |-> "maior_igual"],
      [op |-> <<"<", ">">>, name |-> "diferente"] }

SaidaExample ==
    <<"s","a","i","d","a"," ","<","-"," ","n","1"," ","/"," ","n","2">>

\* How many of toks have type typ.
CountOf(toks, typ) == Len(SelectSeq(toks, LAMBDA k : k.typ = typ))

\* C6 (multi-character operator precedence): wherever the cursor stood at the
\* start of a two-character operator, the match is that operator's rule and
\* covers both characters, and exactly one token was emitted for the two
\* characters; the scan of 'saida <- n1 / n2' holds one atribuicao token and
\* one divisao token.
C6_MultiCharOperators ==
    /\ \A i \in 1..Len(matches[Main]) : \A o \in MultiCharOps :
          LET m == matches[Main][i]
          IN  StartsWith(text[Main], m.start, o.op) =>
                /\ m.lastgroup = o.name
                /\ m.end = m.start + 2
                /\ Cardinality({j \in 1..Len(out[Main]) :
                       out[Main][j].col \in {m.start + 1, m.start + 2}}) = 1
                /\ \E j \in 1..Len(out[Main]) :
                       out[Main][j] = Token(o.name, o.op, out[Main][j].lin,
                                            m.start + 2)
    /\ (pc[Main] = "done" /\ text[Main] = SaidaExample) =>
          /\ CountOf(out[Main], "atribuicao") = 1
          /\ CountOf(out[Main], "divisao") = 1

\* The scan of 'saida <- n1 / n2' has finished.
C6_Witness ==
    /\ pc[Main] = "done"
    /\ text[Main] = SaidaExample
    /\ CountOf(out[Main], "atribuicao") = 1

\* --------------------------------------------------------------- claim C8
\* Nothing has been scanned before the first request; every match that is not
\* a comment has been delivered; a suspended generator stands right after the
\* match of the token delivered last.
C8_NoReadAhead ==
    /\ pc[Main] = "created" =>
          matches[Main] = <<>> /\ out[Main] = <<>> /\ pos[Main] = 0
    /\ Len(NonComments(matches[Main])) = Len(out[Main])
    /\ pc[Main] = "yield" =>
          /\ pos[Main] = Last(out[Main]).col
          /\ Last(matches[Main]).end = pos[Main]
          /\ Last(matches[Main]).lastgroup = Last(out[Main]).typ

\* The symbol table changes only in a step that answers a request with a
\* token, and then only under that token's text; a request delivers at most
\* one token; a dropped generator scans nothing more.
C8_OnlyOnRequest ==
    /\ symbol_table' # symbol_table =>
          /\ pc[Main] \in {"created", "yield"} /\ pc'[Main] = "yield"
          /\ out'[Main] = Append(out[Main], Last(out'[Main]))
          /\ \A k \in DOMAIN symbol_table' :
                k # Last(out'[Main]).val =>
                    k \in DOMAIN symbol_table
                    /\ symbol_table'[k] = symbol_table[k]
    /\ \/ out'[Main] = out[Main]
       \/ out'[Main] = <<>> /\ pc'[Main] = "created"
       \/ Len(out'[Main]) = Len(out[Main]) + 1 /\ IsPrefix(out[Main], out'[Main])
    /\ pc'[Main] = "closed" =>
          UNCHANGED <<symbol_table, text, pos, line, out, matches>>

\* C8 (pull-driven production): matching and symbol-table mutation happen
\* only in answer to a request; after n tokens the cursor and the table
\* reflect the matches up to the n-th token only; a consumer that stops
\* leaves the rest of the text unscanned and the table as it was.
C8_PullDriven == []C8_NoReadAhead /\ [][C8_OnlyOnRequest]_vars

\* A consumer stopped after one token, leaving an identifier unscanned that
\* is therefore no key of the table.
C8_Witness ==
    /\ pc[Main] = "closed"
    /\ Len(out[Main]) = 1
    /\ pos[Main] < Len(text[Main])
    /\ text[Main][Len(text[Main])] = "a"
    /\ <<"a">> \notin DOMAIN symbol_table

\* --------------------------------------------------------------- claim C9
\* No comment or comentario token is yielded and the comentario rule never
\* matches; a match at '//' is a comment match, which runs to the end of its
\* line and covers no token; in a first scan every key of the table is the
\* text of a yielded identifier token.
C9_CommentsDiscarded ==
    LET ms == matches[Main]
        s  == text[Main]
    IN  /\ \A j \in 1..Len(out[Main]) :
              out[Main][j].typ \notin {"comment", "comentario"}
        /\ \A i \in 1..Len(ms) :
              /\ ms[i].lastgroup # "comentario"
              /\ StartsWith(s, ms[i].start, <<"/", "/">>)
                    <=> ms[i].lastgroup = "comment"
              /\ ms[i].lastgroup = "comment" =>
                    /\ \A q \in (ms[i].start + 1)..ms[i].end : s[q] # "\n"
                    /\ ms[i].end = Len(s) \/ s[ms[i].end + 1] = "\n"
                    /\ \A j \in 1..Len(out[Main]) :
                          ~(ms[i].start < out[Main][j].col
                              /\ out[Main][j].col <= ms[i].end)
        /\ calls = 1 =>
              \A k \in DOMAIN symbol_table :
                  Occurrences(out[Main], k) # <<>>

\* A step puts a key into the table only for an identifier match it made
\* outside any comment, and a step whose new matches are all comments leaves
\* the table and the delivered tokens as they were.
C9_NoUpdateFromComments ==
    LET old == Len(matches[Main])
        new == (old + 1)..Len(matches'[Main])
    IN  /\ DOMAIN symbol_table' # DOMAIN symbol_table =>
              /\ IsPrefix(matches[Main], matches'[Main])
              /\ \A k \in DOMAIN symbol_table' \ DOMAIN symbol_table :
                    \E i \in new :
                        /\ matches'[Main][i].lastgroup = "identifier"
                        /\ SubSeq(text'[Main], matches'[Main][i].start + 1,
                                  matches'[Main][i].end) = k
        /\ (/\ IsPrefix(matches[Main], matches'[Main])
            /\ \A i \in new : matches'[Main][i].lastgroup = "comment") =>
              UNCHANGED <<symbol_table, out>>

\* C9 (comment skipping): a comment match moves the cursor, emits no token
\* and updates no table entry; an identifier that occurs only inside comments
\* never becomes a key.
C9_CommentSkipping == []C9_CommentsDiscarded /\ [][C9_NoUpdateFromComments]_vars

\* A finished scan skipped a comment that holds the identifier a, emitted
\* tokens around it, and a is no key.
C9_Witness ==
    /\ pc[Main] = "done"
    /\ out[Main] # <<>>
    /\ <<"a">> \notin DOMAIN symbol_table
    /\ \E i \in 1..Len(matches[Main]) :
          /\ matches[Main][i].lastgroup = "comment"
          /\ \E q \in (matches[Main][i].start + 1)..matches[Main][i].end :
                text[Main][q] = "a"

\* -------------------------------------------------------------- claim C10
\* Every key stays, and the list under it keeps what it held, in order.
C10_Grows ==
    \A k \in DOMAIN symbol_table :
        /\ k \in DOMAIN symbol_table'
        /\ IsPrefix(symbol_table[k], symbol_table'[k])

\* C10 (symbol-table lifecycle): the table is empty at process start and
\* across all scans, finished or abandoned, no key is removed and no stored
\* occurrence list is shortened, replaced or reordered.
C10_Lifecycle == symbol_table = EmptyTable /\ [][C10_Grows]_vars

\* A second scan has finished: it added a key of its own and met again an
\* identifier that an earlier scan had stored.
C10_Witness ==
    /\ calls = 2
    /\ pc[Main] = "done"
    /\ \E k \in DOMAIN symbol_table :
          /\ Occurrences(out[Main], k) # <<>>
          /\ symbol_table[k][1] = Occurrences(out[Main], k)[1]
    /\ \E k \in DOMAIN symbol_table :
          /\ Occurrences(out[Main], k) # <<>>
          /\ symbol_table[k][1] # Occurrences(out[Main], k)[1]

\* --------------------------------------------------------------- claim C7
\* The tokens a scan of the normalized text s yields from offset p, line l on.
RECURSIVE AllTokens(_, _, _)
AllTokens(s, p, l) ==
    LET ms == LoopMatches(s, p)
    IN  IF ms = <<>> \/ Last(ms).lastgroup = "comment" THEN <<>>
        ELSE LET tok == TokenOf(s, Last(ms), l)
             IN  <<tok>> \o AllTokens(s, tok.col, tok.lin)

\* The table after the tokens toks have gone through the symbol-table block.
RECURSIVE RecordAll(_, _)
RecordAll(st, toks) ==
    IF toks = <<>> THEN st ELSE RecordAll(Record(st, Head(toks)), Tail(toks))

\* The table two scans leave when the first runs to its end before the second
\* starts.
SerialTable(a, b) ==
    RecordAll(RecordAll(EmptyTable, AllTokens(a, 0, 0)), AllTokens(b, 0, 0))

\* The first identifier token with text k of the scan of s.
FirstOccurrence(s, k) == Occurrences(AllTokens(s, 0, 0), k)[1]

\* The threads whose text holds the identifier k.
Holders(k) ==
    {t \in Threads : Occurrences(AllTokens(normalize(text[t]), 0, 0), k) # <<>>}

AllDone == \A t \in Threads : pc[t] = "done"

\* C7 (shared symbol table, no synchronization): whatever the interleaving,
\* a key is a non-reserved identifier of one of the texts, and its list holds
\* first occurrences only, at most one per scan; once both scans are done an
\* identifier of one text alone holds that scan's first occurrence, while an
\* identifier the texts share holds the first occurrence of one scan or of
\* both, in either order.  The witness is a final table that no serial order
\* of the two scans produces.
C7_RaceOutcomes ==
    /\ \A k \in DOMAIN symbol_table :
          /\ k \notin reserved_words
          /\ Holders(k) # {}
          /\ Len(symbol_table[k]) <= Cardinality(Holders(k))
          /\ \E f \in [1..Len(symbol_table[k]) -> Holders(k)] :
                /\ \A i, j \in DOMAIN f : f[i] = f[j] => i = j
                /\ \A i \in DOMAIN f :
                      symbol_table[k][i] =
                          FirstOccurrence(normalize(text[f[i]]), k)
    /\ AllDone =>
          \A t \in Threads : \A i \in 1..Len(out[t]) :
              LET k == out[t][i].val
              IN  (out[t][i].typ = "identifier" /\ k \notin reserved_words) =>
                      /\ k \in DOMAIN symbol_table
                      /\ symbol_table[k] # <<>>

\* Both scans are done and the shared identifier holds two different tokens,
\* the one of thread t2 ahead of the one of thread t1: a table that neither
\* serial order of the scans leaves.
C7_Witness ==
    /\ AllDone
    /\ symbol_table # SerialTable(text["t1"], text["t2"])
    /\ symbol_table # SerialTable(text["t2"], text["t1"])
    /\ \E k \in DOMAIN symbol_table :
          /\ Len(symbol_table[k]) = 2
          /\ symbol_table[k][1] # symbol_table[k][2]
          /\ symbol_table[k][1] = FirstOccurrence(text["t2"], k)
          /\ symbol_table[k][2] = FirstOccurrence(text["t1"], k)

\* -------------------------------------------------------------- claim C11
\* C11 (line counting): the lin values of the emitted tokens never decrease
\* in scan order, and a text with k newline characters shows at most k + 1
\* different lin values.
C11_LineCounting ==
    /\ \A i, j \in 1..Len(out[Main]) :
          i <= j => out[Main][i].lin <= out[Main][j].lin
    /\ Cardinality({out[Main][i].lin : i \in 1..Len(out[Main])})
          <= Newlines(text[Main], Len(text[Main])) + 1

\* A finished scan of a text with newlines whose tokens lie on two lines,
\* whitespace tokens among them.
C11_Witness ==
    /\ pc[Main] = "done"
    /\ Newlines(text[Main], Len(text[Main])) >= 1
    /\ Cardinality({out[Main][i].lin : i \in 1..Len(out[Main])}) = 2
    /\ \E i \in 1..Len(out[Main]) : out[Main][i].typ = "whitespace"

\* -------------------------------------------------------------- claim C12
\* C12 (idempotence of normalization): for every text handed to the scanner,
\* normalizing the normalized text changes nothing, and so the scan of the
\* text and the scan of its normalized form yield the same tokens.
C12_Idempotent ==
    pc[Main] = "created" =>
        \E n \in {normalize(text[Main])} :
            \E nn \in {normalize(n)} :
                /\ nn = n
                /\ AllTokens(nn, 0, 0) = AllTokens(n, 0, 0)

\* -------------------------------------------------------------- claim C13
\* C13 (column field): the col of every emitted token is the offset in the
\* normalized text at which its match ends, so the characters before it are
\* the token's value; col grows strictly from one emitted token to the next,
\* also across a newline token; and when the scan has finished and its last
\* match is not a comment, the last token's col is the length of the text.
C13_ColumnField ==
    LET toks == out[Main]
        s    == text[Main]
        ms   == NonComments(matches[Main])
    IN  /\ Len(toks) = Len(ms)
        /\ \A i \in 1..Len(toks) :
              /\ toks[i].col = ms[i].end
              /\ toks[i].col >= Len(toks[i].val)
              /\ toks[i].col <= Len(s)
              /\ SubSeq(s, toks[i].col - Len(toks[i].val) + 1, toks[i].col)
                    = toks[i].val
        /\ \A i \in 1..(Len(toks) - 1) : toks[i].col < toks[i + 1].col
        /\ (pc[Main] = "done" /\ toks # <<>>
               /\ Last(matches[Main]).lastgroup # "comment")
              => Last(toks).col = Len(s)

\* A finished scan with a token after a newline token whose col is larger
\* than the length of its own line, and a last token at the end of the text.
C13_Witness ==
    /\ pc[Main] = "done"
    /\ matches[Main] # <<>>
    /\ Last(matches[Main]).lastgroup # "comment"
    /\ \E i \in 1..(Len(out[Main]) - 1) :
          /\ out[Main][i].typ = "newline"
          /\ out[Main][i + 1].typ = "identifier"
          /\ out[Main][i + 1].col > out[Main][i].col
    /\ Last(out[Main]).col = Len(text[Main])

\* -------------------------------------------------------------- claim C14
Quote == "\""

\* The offsets of the double quotes after offset p with no newline between.
ClosingQuotes(s, p) ==
    {j \in (p + 1)..(Len(s) - 1) :
        /\ s[j + 1] = Quote
        /\ \A i \in (p + 1)..(j - 1) : s[i + 1] # "\n"}

\* The token of match m is among the emitted ones.
Emitted(s, m) ==
    \E k \in 1..Len(out[Main]) :
        /\ out[Main][k].typ = m.lastgroup
        /\ out[Main][k].col = m.end
        /\ out[Main][k].val = SubSeq(s, m.start + 1, m.end)

\* C14 (string literals): a string match starts at a double quote that has a
\* closing quote later on its line; where the cursor stands at a double quote
\* with such a closing quote the match is a string ending at the nearest one,
\* and where it stands at one without, the match is a desconhecido of that one
\* character and the next match starts at the following character; either
\* token is emitted, a string value holds no quote or newline between its
\* first and last character, and the generator never raises.
C14_StringLiterals ==
    LET s  == text[Main]
        ms == matches[Main]
    IN  /\ pc[Main] # "raised"
        /\ ms # <<>> => pos[Main] = Last(ms).end
        /\ \A i \in 1..Len(ms) :
              \E m \in {ms[i]} : \E closing \in {ClosingQuotes(s, m.start)} :
                /\ m.lastgroup = "string" =>
                      s[m.start + 1] = Quote /\ closing # {}
                /\ (s[m.start + 1] = Quote /\ closing # {}) =>
                      /\ m.lastgroup = "string"
                      /\ m.end - 1 \in closing
                      /\ \A j \in closing : m.end - 1 <= j
                      /\ Emitted(s, m)
                /\ (s[m.start + 1] = Quote /\ closing = {}) =>
                      /\ m.lastgroup = "desconhecido"
                      /\ m.end = m.start + 1
                      /\ i < Len(ms) => ms[i + 1].start = m.start + 1
                      /\ Emitted(s, m)
        /\ \A k \in 1..Len(out[Main]) :
              out[Main][k].typ = "string" =>
                \E v \in {out[Main][k].val} :
                  /\ Len(v) >= 2
                  /\ v[1] = Quote /\ v[Len(v)] = Quote
                  /\ \A i \in 2..(Len(v) - 1) : v[i] \notin {Quote, "\n"}

\* A finished scan with a string that ends at the nearer of two closing
\* quotes, and a quote with no closing quote on its line that became a
\* desconhecido token before the scan went on over the newline.
C14_Witness ==
    /\ pc[Main] = "done"
    /\ \E i \in 1..Len(matches[Main]) :
          /\ matches[Main][i].lastgroup = "string"
          /\ Cardinality(ClosingQuotes(text[Main], matches[Main][i].start)) >= 2
    /\ \E i \in 1..(Len(matches[Main]) - 1) :
          /\ matches[Main][i].lastgroup = "desconhecido"
          /\ text[Main][matches[Main][i].start + 1] = Quote
          /\ \E j \in (matches[Main][i].end + 1)..Len(text[Main]) :
                text[Main][j] = Quote
          /\ matches[Main][i + 1].lastgroup = "newline"

====
